---- MODULE Spec2Model ----
(***************************************************************************)
(* A model of plugin/completion/base_complete.py (class BaseCompleter) of  *)
(* EasyClangComplete.                                                      *)
(*                                                                         *)
(* Text is a sequence of one-character strings.  A byte that is not ASCII  *)
(* is written as the token "<FF>"; the character chr(0xFF) as "<U+00FF>".  *)
(***************************************************************************)
EXTENDS Integers, Sequences, FiniteSets, TLC

VARIABLES
    \* ---- the environment of the process
    platform,                 \* platform.system()
    clang_binary,             \* the argument of BaseCompleter.__init__
    probe,                    \* what running `<clang_binary> -v` does
    \* ---- the fields of BaseCompleter
    status,                   \* "none", "ok", or the exception __init__ raised
    version_str,
    error_vis,                \* None, or the CompileErrors object
    flags_manager,            \* None, or the FlagsManager object
    completions,
    async_completions_ready,
    valid,
    \* ---- the state of the concrete completer and of the collaborators
    view_entries,             \* buffer ids that have a per-view completer
    mtime,                    \* modification time of every flags file
    requests,                 \* the asynchronous requests, in starting order
    last_output,              \* per view: the output of its last show_errors
    \* ---- the attributes of the class and of every completer object
    BaseCompleter_attrs,      \* the attributes of the class BaseCompleter
    instance_attrs,           \* per object: the attributes set on it
    \* ---- the last call: its name, its arguments and what it returned
    last_op

vars == << platform, clang_binary, probe, status, version_str, error_vis,
           flags_manager, completions, async_completions_ready, valid,
           view_entries, mtime, requests, last_output, BaseCompleter_attrs,
           instance_attrs, last_op >>

env == << platform, clang_binary, probe >>
fields == << version_str, error_vis, flags_manager, completions,
             async_completions_ready, valid >>
instances == << BaseCompleter_attrs, instance_attrs >>

\* ------------------------------------------------------------------ bounds

\* longest generated probe output
MaxOutLen == 4
\* how often one flags file is touched
MaxTouch == 1
\* how many requests are started in one behaviour
MaxRequests == 2

\* ------------------------------------------------------------------ text

\* Python's None where an object is expected, and where a string is expected
None == [obj |-> "None"]
NoneText == <<"None">>

Digits == {"0", "1", "2", "3", "4", "5", "6", "7", "8", "9"}

\* "clang version 3.8.0"
ClangBanner ==
    <<"c","l","a","n","g"," ","v","e","r","s","i","o","n"," ","3",".","8",".","0">>

\* "Apple LLVM version 9.0.0 (clang-900.0.39.2)"
AppleBanner ==
    <<"A","p","p","l","e"," ","L","L","V","M"," ","v","e","r","s","i","o","n"," ",
      "9",".","0",".","0"," ","(","c","l","a","n","g","-","9","0","0",".","0",".",
      "3","9",".","2",")">>

\* "clang"
ClangName == <<"c","l","a","n","g">>

\* "clang-3.6++", the example of the constructor's docstring
Clang36Name == <<"c","l","a","n","g","-","3",".","6","+","+">>

\* bytes that are not ASCII, and the characters chr() makes of them;
\* the bytes C3 A9 are the UTF-8 encoding of U+00E9
HighByte == "<FF>"
HighChar == "<U+00FF>"
ByteC3 == "<C3>"
ByteA9 == "<A9>"
HighBytes == {HighByte, ByteC3, ByteA9}

RECURSIVE StringsUpTo(_, _)
StringsUpTo(alphabet, n) ==
    IF n = 0 THEN {<<>>}
    ELSE LET shorter == StringsUpTo(alphabet, n - 1)
         IN  shorter \cup {Append(s, c) : s \in shorter, c \in alphabet}

ProbeAlphabet == {"3", "9", ".", "v"}

\* the code point order of the characters a version token is made of
Ord(c) ==
    CASE c = "." -> 46
      [] c = "0" -> 48 [] c = "1" -> 49 [] c = "2" -> 50 [] c = "3" -> 51
      [] c = "4" -> 52 [] c = "5" -> 53 [] c = "6" -> 54 [] c = "7" -> 55
      [] c = "8" -> 56 [] c = "9" -> 57

\* a > b on Python strings: lexicographic by code point
RECURSIVE StrGreater(_, _)
StrGreater(a, b) ==
    IF a = <<>> THEN FALSE
    ELSE IF b = <<>> THEN TRUE
    ELSE IF Head(a) # Head(b) THEN Ord(Head(a)) > Ord(Head(b))
    ELSE StrGreater(Tail(a), Tail(b))

\* `not x` on a string argument
Falsy(text) == text = NoneText \/ text = <<>>

\* ------------------------------------------------------- views and files

\* the open views, by buffer id
Views == {"v1", "v2"}
NoView == "None"

Folders == {"/proj", "/proj/a", "/proj/b"}

\* path.dirname(view.file_name())
dirname(view) == IF view = "v1" THEN "/proj/a" ELSE "/proj/b"

\* path.dirname of a folder; the root of the model is its own parent
Parent(folder) == "/proj"

\* the folders that hold a flags file
FlagsFiles == {"/proj", "/proj/a"}

\* ------------------------------------------------------- the subprocess

Platforms == {"Linux", "Darwin", "Windows"}

Proc(kind, output) == [kind |-> kind, output |-> output]

\* the first word of a command line: what the shell looks up
RECURSIVE FirstWord(_)
FirstWord(command) ==
    IF command = <<>> \/ Head(command) = " " THEN <<>>
    ELSE <<Head(command)>> \o FirstWord(Tail(command))

\* "sh: <name>: not found"
ShNotFound(command) ==
    <<"s","h",":"," ">> \o FirstWord(command)
        \o <<":"," ","n","o","t"," ","f","o","u","n","d">>

\* subprocess.check_output(command, stderr=STDOUT, shell=shell): it returns
\* the bytes the process wrote, raises CalledProcessError when the process
\* exits with an error, and OSError when no process can be started.  p is
\* what the machine does with the command: with a shell, a program that is
\* not found is the shell's exit with an error and its message.
check_output(command, shell, p) ==
    IF p.kind = "not_found"
    THEN IF shell THEN Proc("CalledProcessError", ShNotFound(command))
                  ELSE Proc("OSError", <<>>)
    ELSE p

\* chr(b) of one byte
chr(b) ==
    CASE b = HighByte -> HighChar
      [] b = ByteC3 -> "<U+00C3>"
      [] b = ByteA9 -> "<U+00A9>"
      [] OTHER -> b

\* bytes.decode("utf-8"): ASCII bytes are themselves, C3 A9 is one
\* character, and any other byte above 7F here is a UnicodeDecodeError
RECURSIVE CanDecode(_)
CanDecode(bytes) ==
    IF bytes = <<>> THEN TRUE
    ELSE IF Head(bytes) \notin HighBytes THEN CanDecode(Tail(bytes))
    ELSE /\ Len(bytes) >= 2
         /\ bytes[1] = ByteC3
         /\ bytes[2] = ByteA9
         /\ CanDecode(Tail(Tail(bytes)))

RECURSIVE decode(_)
decode(bytes) ==
    IF bytes = <<>> THEN <<>>
    ELSE IF Head(bytes) \notin HighBytes
    THEN <<Head(bytes)>> \o decode(Tail(bytes))
    ELSE <<"<U+00E9>">> \o decode(Tail(Tail(bytes)))

Text(text) == [kind |-> "text", text |-> text]
Raise(exc) == [kind |-> "raise", text |-> <<>>, exc |-> exc]

\* BaseCompleter.run_command: the text, or the exception that leaves it
run_command(command, shell, p) ==
    LET r == check_output(command, shell, p)
    IN  CASE r.kind = "returned" ->
               Text([i \in 1..Len(r.output) |-> chr(r.output[i])])
          [] r.kind = "CalledProcessError" ->
               IF CanDecode(r.output) THEN Text(decode(r.output))
                                      ELSE Raise("UnicodeDecodeError")
          [] OTHER -> Raise(r.kind)

\* ------------------------------------------------------- the constructor

IsVersionAt(text, i) ==
    /\ i + 2 <= Len(text)
    /\ text[i] \in Digits
    /\ text[i + 1] = "."
    /\ text[i + 2] \in Digits

\* search that keeps "3." of "3.8"
search_major_only(text) ==
    LET at == {i \in 1..Len(text) : IsVersionAt(text, i)}
    IN  IF at = {} THEN NoneText
        ELSE LET i == CHOOSE j \in at : \A k \in at : j <= k
             IN  SubSeq(text, i, i + 1)

\* re.compile("\d\.\d").search(text), then match.group(): the leftmost match
search(text) ==
    LET at == {i \in 1..Len(text) : IsVersionAt(text, i)}
    IN  IF at = {} THEN NoneText
        ELSE LET i == CHOOSE j \in at : \A k \in at : j <= k
             IN  SubSeq(text, i, i + 2)

\* tools.OSX_CLANG_VERSION_DICT: Apple's version -> the clang it is based on
OSX_CLANG_VERSION_DICT == (<<"9",".","0">> :> <<"5",".","0">>)

Threshold == <<"3",".","8">>

Built(st, version, vis) ==
    [status |-> st, version_str |-> version, error_vis |-> vis]

\* error_vis.CompileErrors(): nothing stored for any view
CompileErrors == [obj |-> "CompileErrors", err_regions |-> [v \in Views |-> <<>>]]

\* BaseCompleter.__init__(clang_binary): how it ends, and the fields it set
construct(binary, system, p) ==
    IF Falsy(binary) THEN Built("ConfigurationError", NoneText, None)
    ELSE
    LET r == run_command(binary \o <<" ","-","v">>, TRUE, p)
    IN  IF r.kind = "raise" THEN Built(r.exc, NoneText, None)
        ELSE
        LET match == search(r.text)
        IN  IF match = NoneText THEN Built("ToolInvocationError", NoneText, None)
            ELSE IF StrGreater(match, Threshold) /\ system = "Darwin"
            THEN IF match \in DOMAIN OSX_CLANG_VERSION_DICT
                 THEN Built("ok", OSX_CLANG_VERSION_DICT[match], CompileErrors)
                 ELSE Built("KeyError", match, None)
            ELSE Built("ok", match, CompileErrors)

\* ------------------------------------------------------- the flags manager

Settings(base) ==
    [project_base_folder |-> base,
     generate_flags_with_cmake |-> FALSE,
     cmake_flags_priority |-> "merge",
     cmake_prefix_paths |-> {}]

AllSettings == {Settings(base) : base \in {"/proj", "/proj/a"}}

SearchScope(from_folder, to_folder) ==
    [from_folder |-> from_folder, to_folder |-> to_folder]

\* FlagsManager(...): nothing looked up yet, so no file recorded
FlagsManager(use_cmake, flags_update_strategy, cmake_prefix_paths, search_scope) ==
    [obj |-> "FlagsManager",
     use_cmake |-> use_cmake,
     flags_update_strategy |-> flags_update_strategy,
     cmake_prefix_paths |-> cmake_prefix_paths,
     search_scope |-> search_scope,
     seen |-> {}]

RECURSIVE Ancestors(_)
Ancestors(folder) ==
    IF Parent(folder) = folder THEN {folder}
    ELSE {folder} \cup Ancestors(Parent(folder))

\* the folders searched, nearest first: from from_folder up to to_folder,
\* and from_folder alone when to_folder is not above it
RECURSIVE Walk(_, _)
Walk(from_folder, to_folder) ==
    IF to_folder \notin Ancestors(from_folder) \/ from_folder = to_folder
    THEN <<from_folder>>
    ELSE <<from_folder>> \o Walk(Parent(from_folder), to_folder)

\* flagsFor: the first searched folder that holds a flags file wins, and the
\* file's modification time is recorded with the flags read from it
get_flags(fm, mt) ==
    LET walk == Walk(fm.search_scope.from_folder, fm.search_scope.to_folder)
        hits == {i \in 1..Len(walk) : walk[i] \in FlagsFiles}
    IN  IF hits = {} THEN fm
        ELSE LET file == walk[CHOOSE i \in hits : \A j \in hits : i <= j]
             IN  [fm EXCEPT !.seen =
                    {e \in fm.seen : e[1] # file} \cup {<<file, mt[file]>>}]

\* FlagsManager.any_file_modified()
any_file_modified(fm) == \E e \in fm.seen : mtime[e[1]] # e[2]

\* ------------------------------------------------------- needs_init, init

\* exists_for_view(view_id) of the concrete completer
exists_for_view(view_id) == view_id \in view_entries

buffer_id(view) == view

\* needs_init with the test of the per-view entry inverted
needs_init_inverted(view) ==
    IF flags_manager = None THEN TRUE
    ELSE IF any_file_modified(flags_manager) THEN TRUE
    ELSE IF ~exists_for_view(buffer_id(view)) THEN FALSE
    ELSE TRUE

\* needs_init without its last return
needs_init_falls_through(view) ==
    IF flags_manager = None THEN TRUE
    ELSE IF any_file_modified(flags_manager) THEN TRUE
    ELSE FALSE

\* needs_init that lets a per-view entry hide a modified file
needs_init_entry_first(view) ==
    IF flags_manager = None THEN TRUE
    ELSE IF exists_for_view(buffer_id(view)) THEN FALSE
    ELSE TRUE

\* BaseCompleter.needs_init(view)
needs_init(view) ==
    IF flags_manager = None THEN TRUE
    ELSE IF any_file_modified(flags_manager) THEN TRUE
    ELSE IF exists_for_view(buffer_id(view)) THEN FALSE
    ELSE TRUE

\* init without its guard: a missing view is treated like any view
init_unguarded(view, settings) ==
    FlagsManager(settings.generate_flags_with_cmake,
                 settings.cmake_flags_priority,
                 settings.cmake_prefix_paths,
                 SearchScope(dirname(view), settings.project_base_folder))

\* init that drops the flags manager when it is given no view
init_unbinds(view, settings) ==
    IF view = NoView THEN None
    ELSE FlagsManager(settings.generate_flags_with_cmake,
                      settings.cmake_flags_priority,
                      settings.cmake_prefix_paths,
                      SearchScope(dirname(view), settings.project_base_folder))

\* BaseCompleter.init(view, settings): the flags manager it leaves bound
init(view, settings) ==
    IF view = NoView THEN flags_manager
    ELSE FlagsManager(settings.generate_flags_with_cmake,
                      settings.cmake_flags_priority,
                      settings.cmake_prefix_paths,
                      SearchScope(dirname(view), settings.project_base_folder))

\* ------------------------------------------------------- output, errors

\* One character of compiler output stands for one line of it: "x" and "y"
\* are completion lines, "E" and "W" diagnostics, anything else is a line
\* no parser recognizes.
Candidates == {"x", "y"}
DiagnosticLines == {"E", "W"}

IsCandidate(c) == c \in Candidates
IsDiagnostic(c) == c \in DiagnosticLines

\* the completion candidates in the output; other lines are skipped
completions_from_output(text) == SelectSeq(text, IsCandidate)

Diagnostic(c) == [severity |-> IF c = "E" THEN "Error" ELSE "Warning"]

\* compiler_variant.errors_from_output(output); other lines are skipped
errors_from_output(text) ==
    LET lines == SelectSeq(text, IsDiagnostic)
    IN  [i \in 1..Len(lines) |-> Diagnostic(lines[i])]

\* CompileErrors.generate(view, errors): the view's set is replaced
generate(vis, view, errors) ==
    [vis EXCEPT !.err_regions[view] = errors]

\* CompileErrors.show_regions(view): what the editor is asked to render
show_regions(vis, view) == vis.err_regions[view]

\* show_errors that adds to the stored set
show_errors_merging(vis, view, output) ==
    [vis EXCEPT !.err_regions[view] = @ \o errors_from_output(output)]

\* BaseCompleter.show_errors(view, output): the presenter after generate()
show_errors(vis, view, output) ==
    generate(vis, view, errors_from_output(output))

\* what get_completions returns: the list alone, or the pair of the list
\* and tools.SublBridge.NO_DEFAULT_COMPLETIONS
Alone(list) == [completions |-> list]
Pair(list, flags) == [completions |-> list, flags |-> flags]

\* get_completions that forgets the cached list
get_completions_cleared(list, hide_default_completions) ==
    IF hide_default_completions
    THEN Pair(<<>>, "NO_DEFAULT_COMPLETIONS")
    ELSE Alone(<<>>)

\* BaseCompleter.get_completions(hide_default_completions)
get_completions(list, hide_default_completions) ==
    IF hide_default_completions
    THEN Pair(list, "NO_DEFAULT_COMPLETIONS")
    ELSE Alone(list)

\* ------------------------------------------------------- attribute lookup

\* the completer objects a behaviour can hold at once
Instances == {"c1", "c2"}

\* the body of class BaseCompleter: the attributes it defines
ClassAttributes ==
    [version_str |-> NoneText, error_vis |-> None, compiler_variant |-> None,
     flags_manager |-> None, completions |-> <<>>,
     async_completions_ready |-> FALSE, valid |-> FALSE]

\* an object that has not been created
NoInstance == [obj |-> "None"]
\* an object of the class, before any attribute is set on it
NewInstance == [class |-> "BaseCompleter"]

Live(i) == "class" \in DOMAIN instance_attrs[i]

\* the class and the objects, as one value
Store == [cls |-> BaseCompleter_attrs, inst |-> instance_attrs]

\* self.<name>: the attribute of the object, else the attribute of its class
getattr(store, i, name) ==
    IF name \in DOMAIN store.inst[i]
    THEN store.inst[i][name]
    ELSE store.cls[name]

\* an assignment through self that lands on the class
setattr_on_class(store, i, name, value) ==
    [store EXCEPT !.cls[name] = value]

\* self.<name> = value: the attribute is bound on the object
setattr(store, i, name, value) ==
    [store EXCEPT !.inst[i] = (name :> value) @@ @]

\* ------------------------------------------------------- the environment

Binaries == {NoneText, <<>>, ClangName, Clang36Name}

ProbeOutputs ==
    StringsUpTo(ProbeAlphabet, MaxOutLen)
        \cup {ClangBanner, AppleBanner, <<HighByte>>, <<"3", ".", "8", HighByte>>,
              <<ByteC3, ByteA9, "3", ".", "9">>}

\* everything running `<clang_binary> -v` can do
ProbeOutcomes ==
    {Proc(kind, output) : kind \in {"returned", "CalledProcessError"},
                          output \in ProbeOutputs}
        \cup {Proc("not_found", <<>>), Proc("OSError", <<>>)}

\* what a compiler invocation of a request can do
RequestOutcomes ==
    {Proc("returned", <<"x">>), Proc("returned", <<"y", "E">>),
     Proc("CalledProcessError", <<"?", "W">>),
     Proc("CalledProcessError", <<HighByte>>), Proc("OSError", <<>>)}

ErrorOutputs == {<<"x">>, <<"y", "E">>, <<"?", "W">>}

FewOutcomes ==
    {Proc("returned", <<"x">>), Proc("CalledProcessError", <<HighByte>>)}

Unbuilt ==
    /\ status = "none"
    /\ version_str = NoneText
    /\ error_vis = None
    /\ flags_manager = None
    /\ completions = <<>>
    /\ async_completions_ready = FALSE
    /\ valid = FALSE
    /\ view_entries = {}
    /\ mtime = [f \in FlagsFiles |-> 0]
    /\ requests = <<>>
    /\ last_output = [v \in Views |-> NoneText]
    /\ BaseCompleter_attrs = ClassAttributes
    /\ instance_attrs = [i \in Instances |-> NoInstance]
    /\ last_op = [op |-> "none"]

\* ------------------------------------------------------- the operations

Construct ==
    /\ status = "none"
    /\ LET b == construct(clang_binary, platform, probe)
       IN  /\ status' = b.status
           /\ version_str' = b.version_str
           /\ error_vis' = b.error_vis
    /\ last_op' = [op |-> "__init__"]
    /\ UNCHANGED << env, instances, flags_manager, completions, async_completions_ready,
                    valid, view_entries, mtime, requests, last_output >>

NeedsInit(view) ==
    /\ status = "ok"
    /\ last_op' = [op |-> "needs_init", view |-> view, ret |-> needs_init(view)]
    /\ UNCHANGED << env, instances, status, fields, view_entries, mtime, requests,
                    last_output >>

\* init(view, settings) of the concrete completer: BaseCompleter.init, then
\* the flags of the view's file are resolved and its per-view entry is made
InitView(view, settings) ==
    /\ status = "ok"
    /\ flags_manager' = get_flags(init(view, settings), mtime)
    /\ view_entries' = view_entries \cup {buffer_id(view)}
    /\ last_op' = [op |-> "init", view |-> view]
    /\ UNCHANGED << env, instances, status, version_str, error_vis, completions,
                    async_completions_ready, valid, mtime, requests,
                    last_output >>

\* init(None, settings): BaseCompleter.init returns at once
InitNoView(settings) ==
    /\ status = "ok"
    /\ flags_manager' = init(NoView, settings)
    /\ last_op' = [op |-> "init", view |-> NoView]
    /\ UNCHANGED << env, instances, status, version_str, error_vis, completions,
                    async_completions_ready, valid, view_entries, mtime,
                    requests, last_output >>

\* remove(view_id) of the concrete completer
Remove(view_id) ==
    /\ status = "ok"
    /\ view_entries' = view_entries \ {view_id}
    /\ last_op' = [op |-> "remove", view |-> view_id,
                   existed |-> view_id \in view_entries]
    /\ UNCHANGED << env, instances, status, fields, mtime, requests, last_output >>

\* a flags file is edited or touched on disk
Touch(file) ==
    /\ mtime[file] < MaxTouch
    /\ mtime' = [mtime EXCEPT ![file] = @ + 1]
    /\ last_op' = [op |-> "touch", file |-> file]
    /\ UNCHANGED << env, instances, status, fields, view_entries, requests,
                    last_output >>

ShowErrors(view, output) ==
    /\ status = "ok"
    /\ LET vis == show_errors(error_vis, view, output)
       IN  /\ error_vis' = vis
           /\ last_op' = [op |-> "show_errors", view |-> view,
                          rendered |-> show_regions(vis, view)]
    /\ last_output' = [last_output EXCEPT ![view] = output]
    /\ UNCHANGED << env, instances, status, version_str, flags_manager, completions,
                    async_completions_ready, valid, view_entries, mtime,
                    requests >>

\* get_completions that empties the cache it returns
GetCompletionsConsuming(hide_default_completions) ==
    /\ status = "ok"
    /\ last_op' = [op |-> "get_completions", hide |-> hide_default_completions,
                   ret |-> get_completions(completions, hide_default_completions)]
    /\ completions' = <<>>
    /\ UNCHANGED << env, instances, status, version_str, error_vis, flags_manager,
                    async_completions_ready, valid, view_entries, mtime,
                    requests, last_output >>

GetCompletions(hide_default_completions) ==
    /\ status = "ok"
    /\ last_op' = [op |-> "get_completions", hide |-> hide_default_completions,
                   ret |-> get_completions(completions, hide_default_completions)]
    /\ UNCHANGED << env, instances, status, fields, view_entries, mtime, requests,
                    last_output >>

\* The end of one compiler invocation of complete (keep = FALSE) or update
\* (keep = TRUE): an exception of run_command leaves through the caller;
\* otherwise the candidates are cached, the result is signalled and, when
\* asked for, the errors are shown.
Deliver(op, id, view, errors, p) ==
    LET result == run_command(ClangName, TRUE, p)
        failed == check_output(ClangName, TRUE, p).kind # "returned"
    IN  /\ last_op' = [op |-> op, id |-> id, view |-> view,
                       show_errors |-> errors, failed |-> failed,
                       result |-> result]
        /\ IF result.kind = "raise"
           THEN UNCHANGED << completions, async_completions_ready, error_vis,
                             last_output >>
           ELSE /\ completions' = IF op = "update" THEN completions
                                  ELSE completions_from_output(result.text)
                /\ async_completions_ready' = TRUE
                /\ IF errors
                   THEN /\ error_vis' = show_errors(error_vis, view, result.text)
                        /\ last_output' = [last_output EXCEPT ![view] = result.text]
                   ELSE UNCHANGED << error_vis, last_output >>

Ready(view) ==
    /\ status = "ok"
    /\ flags_manager # None
    /\ exists_for_view(buffer_id(view))

\* complete(view, cursor_pos, show_errors), run to its end by the caller
Complete(view, errors, p) ==
    /\ Ready(view)
    /\ Deliver("complete", 0, view, errors, p)
    /\ UNCHANGED << env, instances, status, version_str, flags_manager, valid, view_entries,
                    mtime, requests >>

\* update(view, show_errors), run to its end by the caller
Update(view, errors, p) ==
    /\ Ready(view)
    /\ Deliver("update", 0, view, errors, p)
    /\ UNCHANGED << env, instances, status, version_str, flags_manager, valid, view_entries,
                    mtime, requests >>

\* complete(view, ...) started off the caller's thread; the id of a request
\* is its place in the starting order
StartRequest(view) ==
    /\ Ready(view)
    /\ Len(requests) < MaxRequests
    /\ requests' = Append(requests, [view |-> view, running |-> TRUE])
    /\ async_completions_ready' = FALSE
    /\ last_op' = [op |-> "start", id |-> Len(requests) + 1]
    /\ UNCHANGED << env, instances, status, version_str, error_vis, flags_manager,
                    completions, valid, view_entries, mtime, last_output >>

\* the compiler invocation of request id ends; whether the request asked for
\* the errors to be shown has no effect before this step
FinishRequest(id, errors, p) ==
    /\ status = "ok"
    /\ requests[id].running
    /\ requests' = [requests EXCEPT ![id].running = FALSE]
    /\ Deliver("complete", id, requests[id].view, errors, p)
    /\ UNCHANGED << env, instances, status, version_str, flags_manager, valid, view_entries,
                    mtime >>

\* ------------------------------------------------------- specifications

Environments ==
    {<< "Darwin", ClangName, Proc("returned", AppleBanner) >>,
     << "Linux", ClangName, Proc("returned", ClangBanner) >>,
     << "Linux", Clang36Name, Proc("returned", <<"v">>) >>}

Init ==
    /\ \E e \in Environments :
          /\ platform = e[1]
          /\ clang_binary = e[2]
          /\ probe = e[3]
    /\ Unbuilt

\* one environment in which the constructor succeeds
InitAsync ==
    /\ platform = "Linux"
    /\ clang_binary = ClangName
    /\ probe = Proc("returned", ClangBanner)
    /\ Unbuilt

\* every operation of the completer, each with a few inputs
Next ==
    \/ Construct
    \/ \E v \in Views : NeedsInit(v)
    \/ \E v \in Views : InitView(v, Settings("/proj"))
    \/ InitNoView(Settings("/proj"))
    \/ \E v \in Views : Remove(v)
    \/ \E f \in FlagsFiles : Touch(f)
    \/ \E v \in Views : ShowErrors(v, <<"y", "E">>)
    \/ \E h \in BOOLEAN : GetCompletions(h)
    \/ \E v \in Views, p \in FewOutcomes : Complete(v, TRUE, p)
    \/ \E v \in Views, p \in FewOutcomes : Update(v, TRUE, p)

Spec == Init /\ [][Next]_vars

\* the life cycle of the views, with every input
NextLifecycle ==
    \/ Construct
    \/ \E v \in Views : NeedsInit(v)
    \/ \E v \in Views, s \in AllSettings : InitView(v, s)
    \/ \E s \in AllSettings : InitNoView(s)
    \/ \E v \in Views : Remove(v)
    \/ \E f \in FlagsFiles : Touch(f)

SpecLifecycle == Init /\ [][NextLifecycle]_vars

\* the requests of initialized views, run one at a time, with every input
NextRequests ==
    \/ Construct
    \/ \E v \in Views : InitView(v, Settings("/proj"))
    \/ \E v \in Views, o \in ErrorOutputs : ShowErrors(v, o)
    \/ \E h \in BOOLEAN : GetCompletions(h)
    \/ \E v \in Views, e \in BOOLEAN, p \in RequestOutcomes : Complete(v, e, p)
    \/ \E v \in Views, e \in BOOLEAN, p \in RequestOutcomes : Update(v, e, p)

SpecRequests == InitAsync /\ [][NextRequests]_vars

\* requests that overlap
NextAsync ==
    \/ Construct
    \/ \E v \in Views : InitView(v, Settings("/proj"))
    \/ \E v \in Views : StartRequest(v)
    \/ \E id \in DOMAIN requests, e \in BOOLEAN, p \in RequestOutcomes :
          FinishRequest(id, e, p)
    \/ \E h \in BOOLEAN : GetCompletions(h)

SpecAsync == InitAsync /\ [][NextAsync]_vars

\* the constructor alone, over every probe outcome
InitProbe ==
    /\ platform \in Platforms
    /\ clang_binary \in Binaries
    /\ probe \in ProbeOutcomes
    /\ Unbuilt

NextProbe == Construct

SpecProbe == InitProbe /\ [][NextProbe]_vars

\* ------------------------------------------------------- two completers

\* BaseCompleter(clang_binary) for the object i; an object whose constructor
\* raised is dropped
ConstructInstance(i) ==
    /\ ~Live(i)
    /\ LET b == construct(clang_binary, platform, probe)
           s0 == [Store EXCEPT !.inst[i] = NewInstance]
           s1 == IF b.version_str = NoneText THEN s0
                 ELSE setattr(s0, i, "version_str", b.version_str)
           s2 == IF b.status = "ok" THEN setattr(s1, i, "error_vis", b.error_vis)
                 ELSE [s1 EXCEPT !.inst[i] = NoInstance]
       IN  /\ BaseCompleter_attrs' = s2.cls
           /\ instance_attrs' = s2.inst
           /\ last_op' = [op |-> "__init__", inst |-> i, status |-> b.status]
    /\ UNCHANGED << env, status, fields, view_entries, mtime, requests,
                    last_output >>

\* The end of one compiler invocation of complete on the object i: the
\* candidates are cached on it and the result is signalled.
CompleteOn(i, p) ==
    /\ Live(i)
    /\ LET result == run_command(ClangName, TRUE, p)
           s1 == setattr(Store, i, "completions",
                         completions_from_output(result.text))
           s2 == setattr(s1, i, "async_completions_ready", TRUE)
       IN  /\ last_op' = [op |-> "complete", inst |-> i, result |-> result]
           /\ IF result.kind = "raise"
              THEN UNCHANGED instances
              ELSE /\ BaseCompleter_attrs' = s2.cls
                   /\ instance_attrs' = s2.inst
    /\ UNCHANGED << env, status, fields, view_entries, mtime, requests,
                    last_output >>

\* get_completions on the object i
GetCompletionsOf(i, hide_default_completions) ==
    /\ Live(i)
    /\ last_op' = [op |-> "get_completions", inst |-> i,
                   hide |-> hide_default_completions,
                   ret |-> get_completions(getattr(Store, i, "completions"),
                                           hide_default_completions)]
    /\ UNCHANGED << env, instances, status, fields, view_entries, mtime,
                    requests, last_output >>

\* two completers of one class, constructed and used in any order
NextInstances ==
    \/ \E i \in Instances : ConstructInstance(i)
    \/ \E i \in Instances, p \in RequestOutcomes : CompleteOn(i, p)
    \/ \E i \in Instances, h \in BOOLEAN : GetCompletionsOf(i, h)

SpecInstances == Init /\ [][NextInstances]_vars

\* ------------------------------------------------------- properties

Stale == flags_manager # None /\ any_file_modified(flags_manager)

Contributing == IF flags_manager = None THEN {}
                ELSE {e[1] : e \in flags_manager.seen}

\* C1: needs_init(view) is true exactly when no flags manager is bound, or
\* any_file_modified() is true, or the view has no per-view entry; a call of
\* needs_init returns that value.
NeedsInitWhen(view) ==
    \/ flags_manager = None
    \/ any_file_modified(flags_manager)
    \/ ~exists_for_view(buffer_id(view))

C1_NeedsInitExactly ==
    status = "ok" =>
        /\ \A v \in Views : needs_init(v) = NeedsInitWhen(v)
        /\ last_op.op = "needs_init" => last_op.ret = NeedsInitWhen(last_op.view)

C1_Witness ==
    /\ last_op.op = "needs_init"
    /\ last_op.ret = FALSE
    /\ \E v \in Views : needs_init(v)

\* C2: touching a contributing flags file makes needs_init true for every
\* view, the views that have a per-view entry included, and needs_init stays
\* true at every step that is not an init of a view.
InitStep == last_op'.op = "init" /\ last_op'.view # NoView

ProbeText == run_command(clang_binary \o <<" ","-","v">>, TRUE, probe)

ExpectedVersion(pair) ==
    IF platform = "Darwin" /\ pair \in DOMAIN OSX_CLANG_VERSION_DICT
    THEN OSX_CLANG_VERSION_DICT[pair]
    ELSE pair

C3_VersionFromProbe ==
    ( /\ status # "none"
      /\ ~Falsy(clang_binary)
      /\ ProbeText.kind = "text"
      /\ search(ProbeText.text) # NoneText )
    => /\ status = "ok"
       /\ version_str = ExpectedVersion(search(ProbeText.text))

\* C4: a constructor given no binary fails with a configuration error; one
\* whose subprocess cannot be run, or whose output holds no version token,
\* fails with an error of the tool's invocation; neither binds error_vis.
CannotRun == probe.kind \in {"not_found", "OSError"}

NoToken == ProbeText.kind = "raise" \/ search(ProbeText.text) = NoneText

C4_ConstructionFails ==
    status # "none" =>
        /\ Falsy(clang_binary)
              => (status = "ConfigurationError" /\ error_vis = None)
        /\ (~Falsy(clang_binary) /\ (CannotRun \/ NoToken))
              => ( /\ status \in {"ToolInvocationError", "OSError",
                                   "UnicodeDecodeError"}
                   /\ error_vis = None )

\* C5: a constructed completer has a version_str of the form digit.digit
\* and a bound error_vis, and no step changes version_str after that.
IsVersionToken(text) == Len(text) = 3 /\ IsVersionAt(text, 1)

C5_VersionFixed ==
    /\ [](status = "ok" => (IsVersionToken(version_str) /\ error_vis # None))
    /\ [][status = "ok" => version_str' = version_str]_vars

C5_Witness ==
    /\ status = "ok"
    /\ platform = "Darwin"
    /\ version_str = <<"5", ".", "0">>
    /\ last_op.op = "complete"
    /\ view_entries = {"v2"}

\* C6: get_completions returns the cached list, alone or paired with the
\* flag that hides the default completions, and changes no field.
C6_GetCompletionsPure ==
    [][ last_op'.op = "get_completions" =>
          /\ fields' = fields
          /\ << view_entries, last_output, requests >>'
                = << view_entries, last_output, requests >>
          /\ last_op'.ret.completions = completions
          /\ last_op'.hide
                => last_op'.ret = Pair(completions, "NO_DEFAULT_COMPLETIONS")
          /\ ~last_op'.hide => last_op'.ret = Alone(completions) ]_vars

C6_Witness ==
    /\ last_op.op = "get_completions"
    /\ last_op.hide
    /\ last_op.ret.completions = <<"y">>
    /\ error_vis.err_regions["v1"] # <<>>

\* the asynchronous requests that have ended
Finished == {id \in DOMAIN requests : ~requests[id].running}

\* a request of the same view that was started after request id has ended
Outran(id) ==
    \E later \in Finished : later > id /\ requests[later].view = requests[id].view

\* C7: when a request ends after one that was started later, the list
\* get_completions returns is the output of the request that ended last.
C7_LastWriteWins ==
    ( /\ last_op.op = "complete"
      /\ last_op.id > 0
      /\ last_op.result.kind = "text"
      /\ Outran(last_op.id) )
    => get_completions(completions, FALSE)
         = Alone(completions_from_output(last_op.result.text))

C7_Witness ==
    /\ last_op.op = "complete"
    /\ last_op.id = 1
    /\ last_op.result.kind = "text"
    /\ Outran(1)
    /\ completions = <<"x">>

\* C8: the output of a request that a later-started request outran is
\* discarded when it arrives: it leaves the cached list as it was.
C8_StaleDiscarded ==
    [][ \A id \in DOMAIN requests :
          ( /\ requests[id].running
            /\ ~requests'[id].running
            /\ Outran(id) )
          => completions' = completions ]_vars

\* C9: the set stored for a view is the diagnostics of the last output
\* shown for it, and what is rendered is the set stored by the same call.
ShownFor(view) ==
    IF last_output[view] = NoneText THEN <<>>
    ELSE errors_from_output(last_output[view])

C9_ErrorsReplaced ==
    status = "ok" =>
        /\ \A v \in Views : error_vis.err_regions[v] = ShownFor(v)
        /\ last_op.op = "show_errors"
              => last_op.rendered = ShownFor(last_op.view)

C9_Witness ==
    /\ last_op.op = "show_errors"
    /\ last_op.view = "v1"
    /\ last_op.rendered = <<Diagnostic("W")>>
    /\ error_vis.err_regions["v2"] = <<Diagnostic("E")>>

\* C10: the compiler invocation of a request never raises: run_command
\* returns a text.
C10_NeverRaises ==
    last_op.op \in {"complete", "update"} => last_op.result.kind = "text"

\* C11: a request whose compiler invocation fails leaves the cached list and
\* the diagnostics stored for its view as they were.
RequestStep == last_op'.op \in {"complete", "update"} /\ last_op' # last_op

C11_FailureKeepsState ==
    [][ (RequestStep /\ last_op'.failed) =>
          /\ completions' = completions
          /\ error_vis'.err_regions[last_op'.view]
                = error_vis.err_regions[last_op'.view] ]_vars

\* C12: remove(view_id) leaves the view without a per-view entry and changes
\* nothing else; on a view that has none it changes nothing at all; after it
\* needs_init is true for the view.
C12_RemoveIdempotent ==
    [][ \A v \in Views :
          (last_op'.op = "remove" /\ last_op'.view = v) =>
              /\ view_entries' = view_entries \ {v}
              /\ ~last_op'.existed => view_entries' = view_entries
              /\ << fields, mtime, requests, last_output >>'
                    = << fields, mtime, requests, last_output >>
              /\ ~exists_for_view(v)'
              /\ needs_init(v)' ]_vars

C12_Witness ==
    /\ last_op.op = "remove"
    /\ ~last_op.existed
    /\ flags_manager # None
    /\ ~Stale
    /\ view_entries # {}

\* C13: init(viewB, settings) leaves the flags manager, its search scope and
\* the staleness established for another view A, which is Ready, unchanged.
C13_InitKeepsOtherBinding ==
    [][ \A a, b \in Views :
          (a # b /\ Ready(a) /\ last_op'.op = "init" /\ last_op'.view = b) =>
              /\ flags_manager'.search_scope = flags_manager.search_scope
              /\ flags_manager' = flags_manager
              /\ Stale' = Stale ]_vars

\* C15: init with no view changes no field of the completer, and on a
\* completer that has no flags manager needs_init stays true for every view.
C15_InitNoViewNoOp ==
    [][ (last_op'.op = "init" /\ last_op'.view = NoView) =>
          /\ fields' = fields
          /\ << view_entries, mtime, requests, last_output >>'
                = << view_entries, mtime, requests, last_output >>
          /\ flags_manager = None => \A v \in Views : needs_init(v)' ]_vars

C15_Witness ==
    /\ last_op.op = "init"
    /\ last_op.view = NoView
    /\ flags_manager = None

\* C16: after an init with a view the flags manager is bound, no step
\* unbinds it, and while it is bound needs_init(view) is true exactly when
\* any_file_modified() is true or the view has no per-view entry.
C16_BindingMonotone ==
    /\ []((last_op.op = "init" /\ last_op.view # NoView) => flags_manager # None)
    /\ [][flags_manager # None => flags_manager' # None]_vars
    /\ []((status = "ok" /\ flags_manager # None) =>
            \A v \in Views :
                needs_init(v) = (\/ any_file_modified(flags_manager)
                                 \/ ~exists_for_view(buffer_id(v))))

C16_Witness ==
    /\ last_op.op = "init"
    /\ last_op.view = NoView
    /\ flags_manager # None
    /\ view_entries = {}
    /\ completions # <<>>

\* C14: completions, valid and async_completions_ready read through one
\* completer do not change in a step taken by another completer, and a newly
\* constructed completer reads an empty list, valid false and
\* async_completions_ready false.
Scoped == {"completions", "valid", "async_completions_ready"}

====
